---- MODULE Spec2Model ----
(***************************************************************************)
(* Server Inventory -- EOSL Dashboard (src/server_inventory.py).           *)
(*                                                                         *)
(* The program is a Streamlit script: every user interaction re-runs the   *)
(* whole script top to bottom against st.session_state, the widget values  *)
(* and the change_log.csv file.  The model has one action per interaction; *)
(* each action is one complete script run (ScriptRun).                     *)
(*                                                                         *)
(* Text that the code takes apart (upper, strip, regex search) is a        *)
(* sequence of one-character strings; text that is only compared is a      *)
(* TLA+ string.  A calendar date is a day number.                          *)
(***************************************************************************)
EXTENDS Integers, Sequences, FiniteSets, TLC

VARIABLES
    pandasNaTCmp,   \* what `NaT < datetime.date` does in the installed pandas
    uploaded,       \* st.sidebar.file_uploader value
    near_days,      \* st.sidebar.number_input value
    criteria,       \* the six filter widgets of the sidebar
    selected_host,  \* text input "Enter hostname to view details"
    actor_name,     \* text input "Your name (for audit entries)"
    inventory_df,   \* st.session_state.inventory_df
    bulk_intimate,  \* st.session_state.bulk_intimate
    changeLog,      \* the file change_log.csv: NoFile or its rows
    clock,          \* datetime.now(), in seconds
    out,            \* what the last script run rendered
    call,           \* a direct call of one of the utility functions
    ret             \* and what it returned

vars == <<pandasNaTCmp, uploaded, near_days, criteria, selected_host, actor_name,
          inventory_df, bulk_intimate, changeLog, clock, out, call, ret>>

-----------------------------------------------------------------------------
(* Bounds of the model *)

MaxRows == 2          \* rows of an uploaded file
MaxLog == 2           \* appends to change_log.csv
MaxNearingDays == 8   \* nearing_days of a direct compute_eosl_status call
MaxKpiRows == 4       \* rows of a collection handed to summarize_kpis

-----------------------------------------------------------------------------
(* Text *)

LowerLetters == <<"a","b","c","d","e","f","g","h","i","j","k","l","m",
                  "n","o","p","q","r","s","t","u","v","w","x","y","z">>
UpperLetters == <<"A","B","C","D","E","F","G","H","I","J","K","L","M",
                  "N","O","P","Q","R","S","T","U","V","W","X","Y","Z">>

upper_char(c) ==
    IF \E i \in 1..26 : LowerLetters[i] = c
    THEN UpperLetters[CHOOSE i \in 1..26 : LowerLetters[i] = c]
    ELSE c

lower_char(c) ==
    IF \E i \in 1..26 : UpperLetters[i] = c
    THEN LowerLetters[CHOOSE i \in 1..26 : UpperLetters[i] = c]
    ELSE c

\* str.upper()
str_upper(s) == [i \in 1..Len(s) |-> upper_char(s[i])]

\* str.strip()
str_strip(s) ==
    LET keep == {i \in 1..Len(s) : s[i] # " "}
    IN  IF keep = {} THEN <<>>
        ELSE SubSeq(s, CHOOSE i \in keep : \A j \in keep : i <= j,
                       CHOOSE i \in keep : \A j \in keep : j <= i)

\* "|".join(xs)
RECURSIVE str_join(_)
str_join(xs) ==
    IF xs = <<>> THEN <<>>
    ELSE IF Len(xs) = 1 THEN xs[1]
    ELSE xs[1] \o <<"|">> \o str_join(Tail(xs))

\* The alternatives of a regular expression: the pattern split at each "|".
RECURSIVE Alternatives(_, _)
Alternatives(pat, acc) ==
    IF pat = <<>> THEN <<acc>>
    ELSE IF Head(pat) = "|" THEN <<acc>> \o Alternatives(Tail(pat), <<>>)
    ELSE Alternatives(Tail(pat), Append(acc, Head(pat)))

\* One alternative matches s at offset k, ignoring case; "." matches any character.
MatchAt(alt, s, k) ==
    /\ k + Len(alt) - 1 <= Len(s)
    /\ \A j \in 1..Len(alt) :
          alt[j] = "." \/ lower_char(alt[j]) = lower_char(s[k + j - 1])

\* Series.str.contains(pat, case=False, na=False): re.search of the pattern (a
\* regular expression of literals, "." and "|") in one cell.
str_contains(s, pat) ==
    LET alts == Alternatives(pat, <<>>)
    IN  \E a \in 1..Len(alts) : \E k \in 1..(Len(s) + 1) : MatchAt(alts[a], s, k)

\* Plain substring test, ignoring case (what the specification calls
\* "case-insensitive substring match").
IsSubstring(needle, s) ==
    \E k \in 1..(Len(s) + 1) :
        /\ k + Len(needle) - 1 <= Len(s)
        /\ \A j \in 1..Len(needle) : lower_char(needle[j]) = lower_char(s[k + j - 1])

-----------------------------------------------------------------------------
(* Program constants *)

SAMPLE_CSV_NAME == "sample_inventory.csv"
CHANGE_LOG == "change_log.csv"

t_Other == <<"O","t","h","e","r">>
t_RHEL == <<"R","H","E","L">>
t_AIX == <<"A","I","X">>
t_SUN == <<"S","U","N">>
t_ORACLE == <<"O","R","A","C","L","E">>
t_ORACLE_SUN == <<"O","R","A","C","L","E","/","S","U","N">>
t_HPE == <<"H","P","E">>

OS_FAMILIES ==
    << t_RHEL, <<"S","U","S","E">>, <<"U","b","u","n","t","u">>,
       <<"S","o","l","a","r","i","s">>, t_AIX,
       <<"W","i","n","d","o","w","s"," ","S","e","r","v","e","r">>,
       <<"C","e","n","t","O","S">>, t_Other >>

\* date.today(): the clock's date is fixed for the whole session.
Today == 100

STATUSES == {"EXPIRED", "NEARING", "SUPPORTED", "UNKNOWN"}

\* The formats parse_date_safe tries, in order.
DATE_FORMATS == <<"%Y-%m-%d", "%d-%m-%Y", "%Y/%m/%d", "%d/%b/%Y", "%b %d %Y">>

-----------------------------------------------------------------------------
(* Dates *)

None == [tag |-> "None", day |-> 0]
NaT == [tag |-> "NaT", day |-> 0]
Date(d) == [tag |-> "date", day |-> d]

(* A raw end_of_service_date cell is the way it is written and the day it
   denotes: one of the five fixed formats; "dateutil", a date that only the
   generic parser reads ("June 30, 2023"); "garbage", text no parser reads
   ("TBD", "2023-02-30"); "" the empty cell; " " whitespace only. *)
RawDate(fmt, d) == [fmt |-> fmt, day |-> d]
EmptyCell == RawDate("", 0)
BlankCell == RawDate(" ", 0)
GarbageCell == RawDate("garbage", 0)

\* datetime.strptime(s, fmt).date(): the date, or ValueError.
strptime(s, fmt) == IF s.fmt = fmt THEN Date(s.day) ELSE [tag |-> "ValueError", day |-> 0]

\* pd.to_datetime(s, errors="coerce"): a Timestamp, or NaT for text it cannot read.
to_datetime(s) == IF s.fmt = "dateutil" \/ s.fmt \in {DATE_FORMATS[i] : i \in 1..5}
                  THEN Date(s.day) ELSE NaT

\* Timestamp.date() is the calendar date; NaT.date() is NaT (it does not raise).
timestamp_date(t) == IF t.tag = "NaT" THEN NaT ELSE t

RECURSIVE try_formats(_, _)
try_formats(s, i) ==
    IF i > Len(DATE_FORMATS) THEN timestamp_date(to_datetime(s))
    ELSE IF strptime(s, DATE_FORMATS[i]).tag = "date" THEN strptime(s, DATE_FORMATS[i])
    ELSE try_formats(s, i + 1)

parse_date_safe(s) ==
    IF s.fmt \in {"", " "} THEN None
    ELSE try_formats(s, 1)

-----------------------------------------------------------------------------
(* Inventory rows and files *)

Ok(v) == [exc |-> "", val |-> v]
Raise(e) == [exc |-> e, val |-> <<>>]

(* The columns of REQUIRED_COLUMNS that the program reads.  A cell of
   hostname, environment and owner_email is only compared (a string); the
   other text cells are taken apart (sequences of characters). *)
TEXT_COLUMNS == {"owner", "team", "hardware_vendor", "os_name",
                 "microcode_version", "firmware_version"}
REQUIRED_COLUMNS == {"hostname", "environment", "owner_email", "end_of_service_date"}
                        \cup TEXT_COLUMNS

NaN == "float(nan)"

\* The text pandas.read_csv reads as a missing value (its default na_values).
NA_VALUES == {"", "NA", "N/A", "NULL", "null", "NaN", "nan", "None", "n/a", "<NA>", "#N/A"}
NA_TEXT == {<<>>, <<"N","A">>}

\* One cell as pd.read_csv(..., dtype=str) returns it.
read_csv_cell(x) == IF x \in NA_VALUES THEN NaN ELSE x

\* The empty cell of a column: what fillna("") and df[c] = "" put there.
EmptyOf(c) ==
    IF c \in TEXT_COLUMNS THEN <<>>
    ELSE IF c = "end_of_service_date" THEN EmptyCell
    ELSE ""

\* pd.read_csv(filelike, dtype=str).fillna("") followed by the loop that adds
\* each missing required column as blanks: the cell of column c in a raw row.
read_cell(file, raw, c) ==
    IF c \notin file.columns THEN EmptyOf(c)
    ELSE IF c \in TEXT_COLUMNS THEN (IF raw[c] \in NA_TEXT THEN <<>> ELSE raw[c])
    ELSE IF c = "end_of_service_date" THEN raw[c]
    ELSE IF read_csv_cell(raw[c]) = NaN THEN "" ELSE raw[c]

\* .str.upper().replace({"SUN":"ORACLE","ORACLE/SUN":"ORACLE"})
normalize_vendor(v) ==
    LET u == str_upper(v)
    IN  IF u = t_SUN \/ u = t_ORACLE_SUN THEN t_ORACLE ELSE u

(* A DataFrame: its rows, and which of the derived columns it has.  A row
   always carries the derived fields; a field of a column the frame does not
   have holds a blank. *)
DERIVED == {"_EOSL_STATUS", "_MISSING_FIRMWARE", "_MISSING_MICROCODE"}

load_row(file, raw) ==
    [ hostname |-> read_cell(file, raw, "hostname"),
      environment |-> read_cell(file, raw, "environment"),
      owner |-> read_cell(file, raw, "owner"),
      team |-> read_cell(file, raw, "team"),
      hardware_vendor |-> normalize_vendor(read_cell(file, raw, "hardware_vendor")),
      os_name |-> read_cell(file, raw, "os_name"),
      end_of_service_date |-> read_cell(file, raw, "end_of_service_date"),
      microcode_version |-> read_cell(file, raw, "microcode_version"),
      firmware_version |-> read_cell(file, raw, "firmware_version"),
      owner_email |-> read_cell(file, raw, "owner_email"),
      _end_of_service_date_parsed |->
          parse_date_safe(read_cell(file, raw, "end_of_service_date")),
      _EOSL_STATUS |-> "",
      _MISSING_FIRMWARE |-> FALSE,
      _MISSING_MICROCODE |-> FALSE ]

\* pd.read_csv raises on input that is not tabular (an empty or malformed file);
\* nothing after it raises.
load_inventory_from_file(file) ==
    IF file.kind # "csv" THEN Raise("ParserError")
    ELSE Ok([ columns |-> {},
              rows |-> [i \in 1..Len(file.rows) |-> load_row(file, file.rows[i])] ])

(* `d < today` and `d <= today + timedelta(...)` with d a datetime.date, None
   excluded before.  With d = NaT the comparison raises TypeError (pandas 2
   and later) or is False (pandas 1.3 to 1.5): pandasNaTCmp. *)
status(d, today, nearing_days, natcmp) ==
    IF d = None THEN Ok("UNKNOWN")
    ELSE IF d = NaT THEN (IF natcmp = "TypeError" THEN Raise("TypeError") ELSE Ok("SUPPORTED"))
    ELSE IF d.day < today THEN Ok("EXPIRED")
    ELSE IF d.day <= today + nearing_days THEN Ok("NEARING")
    ELSE Ok("SUPPORTED")

\* compute_eosl_status filling in only the rows that have no status yet.
compute_eosl_status_stale(df, nearing_days, natcmp) ==
    LET st == [i \in 1..Len(df.rows) |->
                  status(df.rows[i]._end_of_service_date_parsed, Today, nearing_days, natcmp)]
    IN  IF df.rows = <<>> THEN Raise("ValueError")
        ELSE IF \E i \in 1..Len(df.rows) : st[i].exc # "" THEN Raise("TypeError")
        ELSE Ok([ columns |-> df.columns \cup {"_EOSL_STATUS"},
                  rows |-> [i \in 1..Len(df.rows) |->
                               IF df.rows[i]._EOSL_STATUS # "" THEN df.rows[i]
                               ELSE [df.rows[i] EXCEPT !._EOSL_STATUS = st[i].val]] ])

(* df["_EOSL_STATUS"] = df.apply(status, axis=1).  On a frame without rows
   DataFrame.apply returns a copy of the frame, not a Series, and assigning a
   frame of several columns to one column raises ValueError.  An exception of
   status leaves df as it was: the assignment is not reached. *)
compute_eosl_status(df, nearing_days, natcmp) ==
    LET st == [i \in 1..Len(df.rows) |->
                  status(df.rows[i]._end_of_service_date_parsed, Today, nearing_days, natcmp)]
    IN  IF df.rows = <<>> THEN Raise("ValueError")
        ELSE IF \E i \in 1..Len(df.rows) : st[i].exc # "" THEN Raise("TypeError")
        ELSE Ok([ columns |-> df.columns \cup {"_EOSL_STATUS"},
                  rows |-> [i \in 1..Len(df.rows) |->
                               [df.rows[i] EXCEPT !._EOSL_STATUS = st[i].val]] ])

flag_missing_firmware(df) ==
    [ columns |-> df.columns \cup {"_MISSING_FIRMWARE", "_MISSING_MICROCODE"},
      rows |-> [i \in 1..Len(df.rows) |->
                  [df.rows[i] EXCEPT
                      !._MISSING_FIRMWARE = (str_strip(df.rows[i].firmware_version) = <<>>),
                      !._MISSING_MICROCODE = (str_strip(df.rows[i].microcode_version) = <<>>)]] ]

\* (df["_EOSL_STATUS"] == value).sum(): the rows of that status, counted.
RECURSIVE count_status(_, _)
count_status(rows, value) ==
    IF rows = <<>> THEN 0
    ELSE (IF Head(rows)._EOSL_STATUS = value THEN 1 ELSE 0) + count_status(Tail(rows), value)

\* (df["_MISSING_FIRMWARE"] | df["_MISSING_MICROCODE"]).sum()
RECURSIVE count_missing(_)
count_missing(rows) ==
    IF rows = <<>> THEN 0
    ELSE (IF Head(rows)._MISSING_FIRMWARE \/ Head(rows)._MISSING_MICROCODE THEN 1 ELSE 0)
            + count_missing(Tail(rows))

\* round1 cut off instead of rounded.
round1_floor(num, den) == (num * 1000) \div den

(* round(x, 1) of x = num/den*100 >= 0, in tenths: the nearest tenth, a tie
   going to the even one. *)
round1(num, den) ==
    LET q == (num * 1000) \div den
        r == (num * 1000) % den
    IN  IF 2 * r < den THEN q
        ELSE IF 2 * r > den THEN q + 1
        ELSE IF q % 2 = 0 THEN q ELSE q + 1

\* pct_expired is held in tenths of a percent (round(..., 1) * 10).
summarize_kpis(df) ==
    LET total == Len(df.rows)
        expired == count_status(df.rows, "EXPIRED")
        nearing == count_status(df.rows, "NEARING")
        missing_fw == count_missing(df.rows)
    IN  [ total |-> total,
          expired |-> expired,
          nearing |-> nearing,
          missing_fw |-> missing_fw,
          pct_expired |-> IF total > 0 THEN round1(expired, total) ELSE 0 ]

-----------------------------------------------------------------------------
(* The change log *)

\* The keys of the entry dictionaries, in the order both call sites write them.
ENTRY_KEYS == <<"timestamp", "hostname", "action", "actor", "details">>

\* A file that does not exist (os.path.exists is False).
NoFile == [exists |-> FALSE, lines |-> <<>>]

\* datetime.now().isoformat() at second t of the session.
isoformat(t) == "2025-01-01T00:00:0" \o ToString(t)

\* The order of two timestamp strings (sort_values compares them as text).
ts_rank(s) == IF \E t \in 0..9 : isoformat(t) = s
              THEN CHOOSE t \in 0..9 : isoformat(t) = s
              ELSE 10

\* append_change_log writing the header on every call.
append_change_log_reheader(log, entry) ==
    [ exists |-> TRUE,
      lines |-> log.lines \o <<ENTRY_KEYS, [i \in 1..Len(ENTRY_KEYS) |-> entry[ENTRY_KEYS[i]]]>> ]

(* header = not os.path.exists(CHANGE_LOG); open(CHANGE_LOG, "a");
   writer.writeheader() if header; writer.writerow(entry). *)
append_change_log(log, entry) ==
    LET header == ~log.exists
        row == [i \in 1..Len(ENTRY_KEYS) |-> entry[ENTRY_KEYS[i]]]
    IN  [ exists |-> TRUE,
          lines |-> IF header THEN log.lines \o <<ENTRY_KEYS, row>>
                    ELSE Append(log.lines, row) ]

NoEntry == [found |-> FALSE, timestamp |-> "", hostname |-> "", action |-> "",
            actor |-> "", details |-> ""]

\* pd.read_csv(CHANGE_LOG, dtype=str): the first line names the columns, every
\* other line is a row; a cell that reads as a missing value becomes NaN.
read_log_cell(lines, i, c) ==
    IF \E k \in 1..Len(lines[1]) : lines[1][k] = c
    THEN read_csv_cell(lines[i][CHOOSE k \in 1..Len(lines[1]) : lines[1][k] = c])
    ELSE NaN

(* df[df["hostname"]==hostname], sort_values("timestamp", ascending=False),
   iloc[0], dict(last).  Rows of one timestamp are in no specified order. *)
get_last_action_for_host(log, hostname) ==
    IF ~log.exists \/ log.lines = <<>> THEN NoEntry
    ELSE
      LET match == {i \in 2..Len(log.lines) : read_log_cell(log.lines, i, "hostname") = hostname}
      IN  IF match = {} THEN NoEntry
          ELSE LET last == CHOOSE i \in match : \A j \in match :
                              ts_rank(read_log_cell(log.lines, j, "timestamp"))
                                  <= ts_rank(read_log_cell(log.lines, i, "timestamp"))
               IN  [ found |-> TRUE,
                     timestamp |-> read_log_cell(log.lines, last, "timestamp"),
                     hostname |-> read_log_cell(log.lines, last, "hostname"),
                     action |-> read_log_cell(log.lines, last, "action"),
                     actor |-> read_log_cell(log.lines, last, "actor"),
                     details |-> read_log_cell(log.lines, last, "details") ]

-----------------------------------------------------------------------------
(* Filters *)

\* bool(Series): pandas raises ValueError ("The truth value of a Series is
\* ambiguous") for a Series of any length.
series_bool(series) == Raise("ValueError")

\* Python's `series and flag`: the truth value of the left operand is taken first.
series_and(series, flag) ==
    IF series_bool(series).exc # "" THEN Raise(series_bool(series).exc)
    ELSE IF series_bool(series).val THEN Ok(flag) ELSE Ok(series)

NoCriteria == [ vendors |-> {}, os_filter |-> <<>>, envs |-> {}, eosl_filter |-> "All",
                owner_search |-> <<>>, missing_fw_only |-> FALSE ]

\* The mask of the OS-family step:
\*   contains("|".join(families but "Other")) | (strip()=="" and "Other" in os_filter)
os_family_mask(q, os_filter) ==
    LET IsFamily(x) == x # t_Other
        pattern == str_join(SelectSeq(os_filter, IsFamily))
        contains == [i \in 1..Len(q) |-> str_contains(q[i].os_name, pattern)]
        blank == [i \in 1..Len(q) |-> str_strip(q[i].os_name) = <<>>]
        other == series_and(blank, \E k \in 1..Len(os_filter) : os_filter[k] = t_Other)
    IN  IF other.exc # "" THEN Raise(other.exc)
        ELSE Ok([i \in 1..Len(q) |-> contains[i] \/ other.val[i]])

\* q[mask]: the rows whose mask is True, in their order.
RECURSIVE select_rows(_, _)
select_rows(q, mask) ==
    IF q = <<>> THEN <<>>
    ELSE (IF Head(mask) THEN <<Head(q)>> ELSE <<>>) \o select_rows(Tail(q), Tail(mask))

\* if vendors: q = q[q["hardware_vendor"].isin([v.upper() for v in vendors])]
filter_vendors(q, c) ==
    LET InVendors(r) == r.hardware_vendor \in {str_upper(v) : v \in c.vendors}
    IN  IF c.vendors # {} THEN SelectSeq(q, InVendors) ELSE q

\* if os_filter: q = q[<mask of the OS-family step>]
filter_os(q, c) ==
    LET m == os_family_mask(q, c.os_filter)
    IN  IF c.os_filter = <<>> THEN Ok(q)
        ELSE IF m.exc # "" THEN Raise(m.exc)
        ELSE Ok(select_rows(q, m.val))

\* if envs: q = q[q["environment"].isin(envs)]
filter_envs(q, c) ==
    LET InEnvs(r) == r.environment \in c.envs
    IN  IF c.envs # {} THEN SelectSeq(q, InEnvs) ELSE q

\* if eosl_filter and eosl_filter!="All": q = q[q["_EOSL_STATUS"]==eosl_filter]
filter_status(q, c) ==
    LET HasStatus(r) == r._EOSL_STATUS = c.eosl_filter
    IN  IF c.eosl_filter # "" /\ c.eosl_filter # "All" THEN SelectSeq(q, HasStatus) ELSE q

\* if owner_search: q = q[owner contains | team contains]
filter_owner(q, c) ==
    LET OwnerOrTeam(r) == str_contains(r.owner, c.owner_search)
                              \/ str_contains(r.team, c.owner_search)
    IN  IF c.owner_search # <<>> THEN SelectSeq(q, OwnerOrTeam) ELSE q

\* if missing_fw_only: q = q[(q["_MISSING_FIRMWARE"]) | (q["_MISSING_MICROCODE"])]
filter_missing(q, c) ==
    LET Missing(r) == r._MISSING_FIRMWARE \/ r._MISSING_MICROCODE
    IN  IF c.missing_fw_only THEN SelectSeq(q, Missing) ELSE q

apply_filters(df, c) ==
    LET q2 == filter_os(filter_vendors(df.rows, c), c)
    IN  IF q2.exc # "" THEN Raise(q2.exc)
        ELSE Ok(filter_missing(filter_owner(filter_status(filter_envs(q2.val, c), c), c), c))

-----------------------------------------------------------------------------
(* Input data of the model *)

RawRow(host, env, owner, team, vendor, os, eosl, mc, fw, email) ==
    [ hostname |-> host, environment |-> env, owner |-> owner, team |-> team,
      hardware_vendor |-> vendor, os_name |-> os, end_of_service_date |-> eosl,
      microcode_version |-> mc, firmware_version |-> fw, owner_email |-> email ]

\* Rows in the manner of the bundled sample: an expired RHEL database host of a
\* SUN vendor, and a host without microcode whose date is 8 days ahead.
row_db01 == RawRow("db-01", "prod", <<"b","o","b">>, <<"d","b">>, <<"S","u","n">>,
                   <<"r","h","e","l">>, RawDate("%Y-%m-%d", Today - 1),
                   <<"1">>, <<"F","W">>, "bob@example.com")
row_backup01 == RawRow("backup-01", "prod", <<"a","l">>, <<"o","p","s">>, t_HPE,
                   t_AIX, RawDate("%d/%b/%Y", Today + 8),
                   <<>>, <<"F","W">>, "")
\* Rows an operator's file may hold: a date no parser reads, no date at all,
\* a date only the generic parser reads, a date of today.
row_edge01 == RawRow("edge-01", "qa", <<"e","v","a">>, <<>>, <<"h","p","e">>,
                   <<>>, GarbageCell, <<"1">>, <<" ">>, "eva@example.com")
row_app01 == RawRow("app-01", "qa", <<"b","o">>, <<"a","p","p">>, t_ORACLE_SUN,
                   t_AIX, EmptyCell, <<"N","A">>, <<"F","W">>, "")
row_aix01 == RawRow("aix-01", "prod", <<"e","v","e">>, <<"d","b">>, t_HPE,
                   <<"A","I","X"," ","7">>, RawDate("dateutil", Today + 7),
                   <<"1">>, <<"F","W">>, "NA")
row_old == RawRow("", "edge", <<>>, <<>>, <<>>,
                   <<" ">>, RawDate("%b %d %Y", Today), <<"1">>, <<>>, "")

Catalogue == {row_db01, row_backup01, row_edge01, row_app01, row_aix01, row_old}

\* Sequences of at most n elements of S.
SeqUpTo(S, n) == UNION {[1..k -> S] : k \in 0..n}

CsvFile(rows) == [kind |-> "csv", columns |-> REQUIRED_COLUMNS, rows |-> rows]
NoUpload == [kind |-> "none", columns |-> {}, rows |-> <<>>]
MalformedFile == [kind |-> "malformed", columns |-> {}, rows |-> <<>>]

\* ensure_sample_exists writes the sample once; the model's sample has two rows.
SampleFile == CsvFile(<<row_db01, row_backup01>>)

\* Every file of at most MaxRows catalogue rows, with all columns or without
\* the firmware_version column, and a file that is not a table.
Files ==
    {CsvFile(rows) : rows \in SeqUpTo(Catalogue, MaxRows)}
      \cup {[CsvFile(<<row_db01>>) EXCEPT !.columns = REQUIRED_COLUMNS \ {"firmware_version"}]}
      \cup {MalformedFile}

\* The files the operator uploads in a session.
UploadChoices ==
    {CsvFile(rows) : rows \in SeqUpTo({row_backup01, row_edge01}, MaxRows)}
      \cup {MalformedFile}

\* number_input(min_value=7, max_value=365, value=90, step=7)
NearDayChoices == {7, 14, 90}

CriteriaChoices ==
    { NoCriteria,
      [NoCriteria EXCEPT !.os_filter = <<t_Other>>],
      [NoCriteria EXCEPT !.envs = {"prod"}, !.eosl_filter = "EXPIRED"],
      [NoCriteria EXCEPT !.missing_fw_only = TRUE] }

HostChoices == {"", "db-01", "backup-01", "nohost"}
ActorChoices == {"operator_name", "", "NA"}

-----------------------------------------------------------------------------
(* One run of the script *)

DEFAULT_ACTOR == "operator_name"

\* The audit entry both call sites build; `details` ends with the row's status.
Entry(t, host, actor, details) ==
    [ timestamp |-> isoformat(t), hostname |-> host, action |-> "INTIMATED",
      actor |-> actor, details |-> details ]

BulkDetails(row) == "Bulk intimated via UI. EOSL status: " \o row._EOSL_STATUS
MarkDetails(row) ==
    "Intimated owner " \o row.owner_email \o " via UI. EOSL status: " \o row._EOSL_STATUS

\* for _, row in filtered.iterrows(): append_change_log(entry); count += 1
RECURSIVE bulk_append(_, _, _, _)
bulk_append(log, rows, t, actor) ==
    IF rows = <<>> THEN log
    ELSE bulk_append(append_change_log(log, Entry(t, Head(rows).hostname, actor,
                                                    BulkDetails(Head(rows)))),
                     Tail(rows), t + 1, actor)

NoKpis == [total |-> 0, expired |-> 0, nearing |-> 0, missing_fw |-> 0, pct_expired |-> 0]

\* handle_upload dropping the held collection before it tries to load.
handle_upload_clearing(inv, up) ==
    LET up_r == load_inventory_from_file(up)
    IN  IF up.kind = "none" THEN [inv |-> inv, messages |-> {}]
        ELSE IF up_r.exc = "" THEN [inv |-> up_r.val, messages |-> {"Inventory CSV loaded."}]
        ELSE [inv |-> [columns |-> {}, rows |-> <<>>], messages |-> {"Failed to load CSV"}]

(* if uploaded is not None:
       try: st.session_state.inventory_df = load_inventory_from_file(uploaded)
            st.success(...)
       except Exception as e: st.error(...)
   The assignment is reached only when the load returned. *)
handle_upload(inv, up) ==
    LET up_r == load_inventory_from_file(up)
    IN  IF up.kind = "none" THEN [inv |-> inv, messages |-> {}]
        ELSE IF up_r.exc = "" THEN [inv |-> up_r.val, messages |-> {"Inventory CSV loaded."}]
        ELSE [inv |-> inv, messages |-> {"Failed to load CSV"}]

(* The script from the upload handling to its end, as the steps it takes in
   order.  Each step maps the run's state s to the state after it:
     s.inv, s.bulk       st.session_state
     s.up .. s.actor     the widget values the run reads
     s.click             the button whose click started the run ("" for none)
     s.log, s.now        change_log.csv and the clock
     s.exc, s.reached    the exception that ended the run, and where
     s.messages ..       what the run has rendered so far
   An exception ends the run where it is raised: what the run assigned to the
   session state before stays, and every later step is skipped. *)
Abort(s, stage, exc) == [s EXCEPT !.exc = exc, !.reached = stage]

run_upload(s) ==
    LET h == handle_upload(s.inv, s.up)
    IN  [s EXCEPT !.inv = h.inv, !.messages = h.messages]

\* if st.sidebar.button("Reload sample inventory")
run_reload(s) ==
    IF s.click = "reload"
    THEN [s EXCEPT !.inv = load_inventory_from_file(SampleFile).val,
                   !.messages = @ \cup {"Sample inventory loaded."}]
    ELSE s

\* if apply_btn: compute_eosl_status, flag_missing_firmware on the session's frame
run_apply(s) ==
    LET r == compute_eosl_status(s.inv, s.nd, s.natcmp)
    IN  IF s.click # "apply" THEN s
        ELSE IF r.exc # "" THEN Abort(s, "apply", r.exc)
        ELSE [s EXCEPT !.inv = flag_missing_firmware(r.val),
                       !.messages = @ \cup {"Recomputed EOSL statuses."}]

\* the bulk buttons: bulk_intimate is True only in the run its button started
run_sidebar(s) ==
    IF s.exc # "" THEN s
    ELSE [s EXCEPT !.bulk = (s.click = "bulk")]

\* df = st.session_state.inventory_df.copy(); the derived fields added if missing
run_classify(s) ==
    LET r == compute_eosl_status(s.inv, s.nd, s.natcmp)
        FlagIfMissing(df) == IF "_MISSING_FIRMWARE" \notin df.columns
                             THEN flag_missing_firmware(df) ELSE df
    IN  IF s.exc # "" THEN s
        ELSE IF "_EOSL_STATUS" \in s.inv.columns THEN [s EXCEPT !.df = FlagIfMissing(s.inv)]
        ELSE IF r.exc # "" THEN Abort(s, "classify", r.exc)
        ELSE [s EXCEPT !.df = FlagIfMissing(r.val)]

\* filtered = apply_filters(df); kpis = summarize_kpis(df)
run_filter(s) ==
    LET f == apply_filters(s.df, s.crit)
    IN  IF s.exc # "" THEN s
        ELSE IF f.exc # "" THEN Abort(s, "filter", f.exc)
        ELSE [s EXCEPT !.filtered = f.val, !.kpis = summarize_kpis(s.df)]

(* if st.session_state.get("bulk_intimate", False):
       ... if st.button("Confirm bulk mark intimated for filtered rows"): <loop>
       st.session_state.bulk_intimate = False *)
run_bulk(s) ==
    IF s.exc # "" \/ ~s.bulk THEN s
    ELSE IF s.click = "confirm"
    THEN [s EXCEPT !.log = bulk_append(s.log, s.filtered, s.now, "operator"),
                   !.now = @ + Len(s.filtered),
                   !.count = Len(s.filtered),
                   !.messages = @ \cup {"rows appended to change_log.csv"},
                   !.confirm_shown = TRUE,
                   !.bulk = FALSE]
    ELSE [s EXCEPT !.confirm_shown = TRUE, !.bulk = FALSE]

\* if selected_host: the row's details, its last action, "Mark intimated"
run_detail(s) ==
    LET hits == {i \in 1..Len(s.df.rows) : s.df.rows[i].hostname = s.host}
        r == s.df.rows[CHOOSE i \in hits : \A j \in hits : i <= j]
    IN  IF s.exc # "" \/ s.host = "" THEN s
        ELSE IF hits = {} THEN [s EXCEPT !.messages = @ \cup {"Hostname not found in inventory."}]
        ELSE IF s.click = "mark"
        THEN [s EXCEPT !.last_act = get_last_action_for_host(s.log, s.host),
                       !.mark_shown = TRUE,
                       !.log = append_change_log(s.log, Entry(s.now, s.host, s.actor, MarkDetails(r))),
                       !.now = @ + 1,
                       !.messages = @ \cup {"Appended to change_log.csv"}]
        ELSE [s EXCEPT !.last_act = get_last_action_for_host(s.log, s.host),
                       !.mark_shown = TRUE]

(* The end of the run.  Streamlit forgets the value of every widget the run
   did not come to render: the filter widgets when "Apply EOSL rules" raised,
   the hostname input when anything raised, the actor input unless a row was
   shown. *)
run_end(s) ==
    [ inv |-> s.inv, bulk |-> s.bulk, log |-> s.log, now |-> s.now,
      crit |-> IF s.reached = "apply" THEN NoCriteria ELSE s.crit,
      host |-> IF s.exc # "" THEN "" ELSE s.host,
      actor |-> IF s.mark_shown THEN s.actor ELSE DEFAULT_ACTOR,
      out |-> [ click |-> s.click, reached |-> s.reached, exc |-> s.exc,
                messages |-> s.messages, filtered |-> s.filtered, kpis |-> s.kpis,
                count |-> s.count, confirm_shown |-> s.confirm_shown,
                mark_shown |-> s.mark_shown, last_act |-> s.last_act ] ]

ScriptRun(s) ==
    run_end(run_detail(run_bulk(run_filter(run_classify(run_sidebar(run_apply(
        run_reload(run_upload(s)))))))))

\* The state a run starts from.
RunState(inv, bulk, up, nd, crit, host, actor, click, log, now, natcmp) ==
    [ inv |-> inv, bulk |-> bulk, up |-> up, nd |-> nd, crit |-> crit, host |-> host,
      actor |-> actor, click |-> click, log |-> log, now |-> now, natcmp |-> natcmp,
      exc |-> "", reached |-> "end", messages |-> {}, df |-> inv, filtered |-> <<>>,
      kpis |-> NoKpis, count |-> 0, confirm_shown |-> FALSE, mark_shown |-> FALSE,
      last_act |-> NoEntry ]

\* The state a run leaves: r is what ScriptRun returned.
Commit(r, up, nd) ==
    /\ uploaded' = up
    /\ near_days' = nd
    /\ criteria' = r.crit
    /\ selected_host' = r.host
    /\ actor_name' = r.actor
    /\ inventory_df' = r.inv
    /\ bulk_intimate' = r.bulk
    /\ changeLog' = r.log
    /\ clock' = r.now
    /\ out' = r.out
    /\ UNCHANGED <<pandasNaTCmp, call, ret>>

\* The run that a click or a changed widget starts.
Run(click, up, nd, crit, host, actor) ==
    Commit(ScriptRun(RunState(inventory_df, bulk_intimate, up, nd, crit, host, actor, click,
                              changeLog, clock, pandasNaTCmp)), up, nd)

\* Which widgets the last run rendered.
SidebarFiltersShown == out.reached # "apply"
MainShown == out.reached = "end"

-----------------------------------------------------------------------------
(* The operator's interactions *)

UploadFile == \E f \in UploadChoices :
    Run("", f, near_days, criteria, selected_host, actor_name)

RemoveUpload ==
    /\ uploaded.kind # "none"
    /\ Run("", NoUpload, near_days, criteria, selected_host, actor_name)

ClickReloadSample == Run("reload", uploaded, near_days, criteria, selected_host, actor_name)

SetNearDays == \E n \in NearDayChoices :
    /\ n # near_days
    /\ Run("", uploaded, n, criteria, selected_host, actor_name)

ClickApply == Run("apply", uploaded, near_days, criteria, selected_host, actor_name)

SetCriteria == \E c \in CriteriaChoices :
    /\ SidebarFiltersShown
    /\ c # criteria
    /\ Run("", uploaded, near_days, c, selected_host, actor_name)

\* "Export filtered CSV", "Bulk: export contact list (CSV)", "Contact Owner",
\* "Create ticket export": a run that offers a download or a link.
ClickExport ==
    /\ SidebarFiltersShown
    /\ Run("export", uploaded, near_days, criteria, selected_host, actor_name)

ClickBulkIntimate ==
    /\ SidebarFiltersShown
    /\ Run("bulk", uploaded, near_days, criteria, selected_host, actor_name)

ClickConfirmBulk ==
    /\ out.confirm_shown
    /\ Run("confirm", uploaded, near_days, criteria, selected_host, actor_name)

\* The actor input is keyed by the hostname: a new hostname shows a new input.
SetSelectedHost == \E h \in HostChoices :
    /\ MainShown
    /\ h # selected_host
    /\ Run("", uploaded, near_days, criteria, h, DEFAULT_ACTOR)

SetActorName == \E a \in ActorChoices :
    /\ out.mark_shown
    /\ a # actor_name
    /\ Run("", uploaded, near_days, criteria, selected_host, a)

ClickMarkIntimated ==
    /\ out.mark_shown
    /\ clock <= MaxLog
    /\ Run("mark", uploaded, near_days, criteria, selected_host, actor_name)

\* The state after the first run of a new session: the sample is loaded and
\* classified with 90 days, every widget holds its default.
FirstInventory ==
    flag_missing_firmware(
        compute_eosl_status(load_inventory_from_file(SampleFile).val, 90, "TypeError").val)

FirstOut ==
    ScriptRun(RunState(FirstInventory, FALSE, NoUpload, 90, NoCriteria, "", DEFAULT_ACTOR,
                       "", NoFile, 1, "TypeError")).out

NoCall == [fn |-> "", arg |-> <<>>]
NoRet == [done |-> FALSE, val |-> <<>>]

Init ==
    /\ pandasNaTCmp \in {"TypeError", "False"}
    /\ uploaded = NoUpload
    /\ near_days = 90
    /\ criteria = NoCriteria
    /\ selected_host = ""
    /\ actor_name = DEFAULT_ACTOR
    /\ inventory_df = FirstInventory
    /\ bulk_intimate = FALSE
    /\ changeLog = NoFile
    /\ clock = 1
    /\ out = FirstOut
    /\ call = NoCall
    /\ ret = NoRet

\* Loading and classifying the inventory.
NextInventory ==
    \/ UploadFile
    \/ RemoveUpload
    \/ ClickReloadSample
    \/ SetNearDays
    \/ ClickApply

\* The filtered view and the bulk actions of the sidebar.
NextView ==
    \/ SetCriteria
    \/ ClickExport
    \/ ClickBulkIntimate
    \/ ClickConfirmBulk

\* Row detail and the audit entry of one host.
NextAudit ==
    \/ SetSelectedHost
    \/ SetActorName
    \/ ClickMarkIntimated

Next == NextInventory \/ NextView \/ NextAudit

Spec == Init /\ [][Next]_vars

(* The session seen from the inventory: the interactions that load, classify,
   filter and bulk-mark.  The row-detail interactions run the same script and
   differ only in what they append to the change log. *)
SpecSession == Init /\ [][NextInventory \/ NextView]_vars

(* The session seen from the change log: every interaction that leads to a
   call of append_change_log, on the sample inventory. *)
SpecAudit == Init /\ [][NextAudit \/ ClickBulkIntimate \/ ClickConfirmBulk]_vars

-----------------------------------------------------------------------------
(* Direct calls of the utility functions *)

Days == (Today - 2)..(Today + MaxNearingDays + 1)

RawDates ==
    {EmptyCell, BlankCell, GarbageCell}
      \cup {RawDate(f, d) : f \in {DATE_FORMATS[i] : i \in 1..Len(DATE_FORMATS)} \cup {"dateutil"},
                            d \in Days}

\* A frame as load, compute_eosl_status (7 days) and flag_missing_firmware leave it.
Classified(file, natcmp) ==
    flag_missing_firmware(
        compute_eosl_status(load_inventory_from_file(file).val, 7, natcmp).val)

Classifies(file, natcmp) ==
    /\ file.kind = "csv"
    /\ compute_eosl_status(load_inventory_from_file(file).val, 7, natcmp).exc = ""

AllCriteria ==
    [ vendors : {{}, {t_HPE}},
      os_filter : {<<>>, <<t_Other>>, <<t_RHEL>>, <<t_AIX, t_Other>>},
      envs : {{}, {"prod"}},
      eosl_filter : {"All", "EXPIRED"},
      owner_search : {<<>>, <<"b","O">>, <<".">>},
      missing_fw_only : BOOLEAN ]

\* The classified rows of the catalogue, in any number and order: the frames
\* handed to summarize_kpis (the full collection, or any selection of it).
ClassifiedRows(natcmp) ==
    {Classified(CsvFile(<<r>>), natcmp).rows[1] : r \in {x \in Catalogue : Classifies(CsvFile(<<x>>), natcmp)}}

KpiFrames(natcmp) ==
    {[columns |-> DERIVED, rows |-> rows] : rows \in SeqUpTo(ClassifiedRows(natcmp), MaxKpiRows)}

InitCalls ==
    /\ pandasNaTCmp \in {"TypeError", "False"}
    /\ uploaded = NoUpload
    /\ near_days = 90
    /\ criteria = NoCriteria
    /\ selected_host = ""
    /\ actor_name = DEFAULT_ACTOR
    /\ inventory_df = FirstInventory
    /\ bulk_intimate = FALSE
    /\ changeLog = NoFile
    /\ clock = 1
    /\ out = FirstOut
    /\ \/ \E raw \in RawDates : call = [fn |-> "parse_date_safe", arg |-> raw]
       \/ \E f \in {x \in Files : x.kind = "csv"}, n \in 1..MaxNearingDays :
             call = [fn |-> "compute_eosl_status", arg |-> [file |-> f, nearing_days |-> n]]
       \/ \E f \in {x \in Files : Classifies(x, pandasNaTCmp)}, c \in AllCriteria :
             call = [fn |-> "apply_filters",
                     arg |-> [df |-> Classified(f, pandasNaTCmp), criteria |-> c]]
       \/ \E df \in KpiFrames(pandasNaTCmp) :
             call = [fn |-> "summarize_kpis", arg |-> df]
    /\ ret = NoRet

Returns(fn, v) ==
    /\ call.fn = fn
    /\ ~ret.done
    /\ ret' = [done |-> TRUE, val |-> v]
    /\ UNCHANGED <<pandasNaTCmp, uploaded, near_days, criteria, selected_host, actor_name,
                   inventory_df, bulk_intimate, changeLog, clock, out, call>>

CallParseDateSafe == Returns("parse_date_safe", parse_date_safe(call.arg))

\* load_inventory_from_file, then compute_eosl_status on the frame it returned.
CallComputeEoslStatus ==
    Returns("compute_eosl_status",
            compute_eosl_status(load_inventory_from_file(call.arg.file).val,
                                call.arg.nearing_days, pandasNaTCmp))

CallApplyFilters == Returns("apply_filters", apply_filters(call.arg.df, call.arg.criteria))

CallSummarizeKpis == Returns("summarize_kpis", summarize_kpis(call.arg))

NextCalls ==
    \/ CallParseDateSafe
    \/ CallComputeEoslStatus
    \/ CallApplyFilters
    \/ CallSummarizeKpis

SpecCalls == InitCalls /\ [][NextCalls]_vars

-----------------------------------------------------------------------------
(* Properties of the direct calls (SpecCalls) *)

Returned(fn) == call.fn = fn /\ ret.done

\* C1: for every record and every nearing_days > 0, compute_eosl_status assigns
\* exactly one of the four statuses: UNKNOWN iff the parsed date is None,
\* EXPIRED if the date is before today, NEARING if it is from today to
\* today + nearing_days (both included), SUPPORTED otherwise.
C1_EveryRecordGetsItsStatus ==
    Returned("compute_eosl_status") =>
        LET rows == load_inventory_from_file(call.arg.file).val.rows
            n == call.arg.nearing_days
        IN  \A i \in 1..Len(rows) :
              /\ ret.val.exc = ""
              /\ LET d == rows[i]._end_of_service_date_parsed
                     st == ret.val.val.rows[i]._EOSL_STATUS
                     expired == d.tag = "date" /\ d.day < Today
                     nearing == d.tag = "date" /\ Today <= d.day /\ d.day <= Today + n
                 IN  /\ st \in STATUSES
                     /\ (st = "UNKNOWN") <=> (d = None)
                     /\ expired => st = "EXPIRED"
                     /\ nearing => st = "NEARING"
                     /\ (d # None /\ ~expired /\ ~nearing) => st = "SUPPORTED"

Unreadable(raw) == raw.fmt \in {"", " ", "garbage"}

\* C2: parse_date_safe never raises and returns a calendar date or None; for an
\* empty, whitespace-only or unreadable string it returns None, and the record
\* loaded from such a string is classified UNKNOWN.
C2_UnreadableDateIsUnknown ==
    /\ Returned("parse_date_safe") =>
          /\ ret.val.tag \in {"date", "None"}
          /\ Unreadable(call.arg) => ret.val = None
    /\ Returned("compute_eosl_status") =>
          \A i \in 1..Len(call.arg.file.rows) :
              ("end_of_service_date" \in call.arg.file.columns
                  /\ Unreadable(call.arg.file.rows[i].end_of_service_date))
              => (ret.val.exc = "" /\ ret.val.val.rows[i]._EOSL_STATUS = "UNKNOWN")

\* A record matches the OS families: its os_name contains one of the families
\* other than "Other", or it is blank and "Other" is among them.
MatchesOsFamilies(r, os_filter) ==
    \/ \E k \in 1..Len(os_filter) :
          os_filter[k] # t_Other /\ IsSubstring(os_filter[k], r.os_name)
    \/ (\E k \in 1..Len(os_filter) : os_filter[k] = t_Other) /\ str_strip(r.os_name) = <<>>

\* A record satisfies every active criterion.
Satisfies(r, c) ==
    /\ c.vendors # {} => str_upper(r.hardware_vendor) \in c.vendors
    /\ c.os_filter # <<>> => MatchesOsFamilies(r, c.os_filter)
    /\ c.envs # {} => r.environment \in c.envs
    /\ c.eosl_filter # "All" => r._EOSL_STATUS = c.eosl_filter
    /\ c.owner_search # <<>> =>
          IsSubstring(c.owner_search, r.owner) \/ IsSubstring(c.owner_search, r.team)
    /\ c.missing_fw_only => (r._MISSING_FIRMWARE \/ r._MISSING_MICROCODE)

\* C4: for every collection and every combination of criteria, apply_filters
\* returns the records that satisfy every active criterion, in their original
\* order (a subsequence of the input), and nothing else.
C4_FilterKeepsExactlyTheMatches ==
    Returned("apply_filters") =>
        LET Keep(r) == Satisfies(r, call.arg.criteria)
        IN  /\ ret.val.exc = ""
            /\ ret.val.val = SelectSeq(call.arg.df.rows, Keep)

\* C5: with a non-empty os_filter the OS-family step completes without error
\* and keeps exactly the records that match the families; with "Other" alone
\* it does not keep every row.
C5_OsFamilyFilterCompletes ==
    (Returned("apply_filters") /\ call.arg.criteria.os_filter # <<>>) =>
        /\ ret.val.exc = ""
        /\ \A i \in 1..Len(ret.val.val) :
              MatchesOsFamilies(ret.val.val[i], call.arg.criteria.os_filter)
        /\ (call.arg.criteria.os_filter = <<t_Other>>
              /\ \E i \in 1..Len(call.arg.df.rows) : str_strip(call.arg.df.rows[i].os_name) # <<>>)
           => ret.val.val # call.arg.df.rows

Abs(x) == IF x < 0 THEN -x ELSE x

\* C9: summarize_kpis returns total = the number of records, expired and
\* nearing = the number of records of that status, missing_fw = the number of
\* records without firmware or microcode, and pct_expired = 0 for the empty
\* collection, otherwise expired/total*100 to the nearest tenth.
C9_KpisAreExactTallies ==
    Returned("summarize_kpis") =>
        LET rows == call.arg.rows
            k == ret.val
            idx == 1..Len(rows)
        IN  /\ k.total = Len(rows)
            /\ k.expired = Cardinality({i \in idx : rows[i]._EOSL_STATUS = "EXPIRED"})
            /\ k.nearing = Cardinality({i \in idx : rows[i]._EOSL_STATUS = "NEARING"})
            /\ k.missing_fw = Cardinality({i \in idx : rows[i]._MISSING_FIRMWARE
                                                         \/ rows[i]._MISSING_MICROCODE})
            /\ Len(rows) = 0 => k.pct_expired = 0
            /\ Len(rows) > 0 =>
                  2 * Abs(k.pct_expired * Len(rows) - 1000 * k.expired) <= Len(rows)

\* Two of three records are expired: 66.666.. is rendered as 66.7.
C9_Witness ==
    /\ Returned("summarize_kpis")
    /\ ret.val.total = 3
    /\ ret.val.expired = 2
    /\ ret.val.pct_expired = 667

-----------------------------------------------------------------------------
(* Properties of the session (SpecSession) *)

\* A frame as load_inventory_from_file returns it: no derived column yet.
Fresh(df) ==
    [ columns |-> {},
      rows |-> [i \in 1..Len(df.rows) |->
                  [df.rows[i] EXCEPT !._EOSL_STATUS = "", !._MISSING_FIRMWARE = FALSE,
                                     !._MISSING_MICROCODE = FALSE]] ]

\* C3: a run whose uploaded file fails to load surfaces an error and leaves the
\* session's collection as it was (the run's other handlers aside: "Apply"
\* re-derives the status, "Reload sample" loads the sample); the collection is
\* replaced only by a load that completed.
C3_FailedLoadKeepsInventory ==
    [][ /\ uploaded'.kind = "malformed" =>
              /\ "Failed to load CSV" \in out'.messages
              /\ out'.click \notin {"reload", "apply"} => inventory_df' = inventory_df
              /\ out'.click = "apply" => Fresh(inventory_df') = Fresh(inventory_df)
        /\ Fresh(inventory_df') # Fresh(inventory_df) =>
              \/ /\ out'.click = "reload"
                 /\ Fresh(inventory_df') = load_inventory_from_file(SampleFile).val
              \/ /\ out'.click # "reload"
                 /\ uploaded'.kind = "csv"
                 /\ Fresh(inventory_df') = load_inventory_from_file(uploaded').val
      ]_vars

\* A file that is not a table is uploaded while the session holds the one row
\* of an earlier upload.
C3_Witness ==
    /\ uploaded.kind = "malformed"
    /\ "Failed to load CSV" \in out.messages
    /\ Len(inventory_df.rows) = 1

\* C8: after "Apply EOSL rules" with threshold n, whatever thresholds were
\* applied before, the session's collection is what one classification with n
\* of the freshly loaded collection gives: no status is carried over and no
\* field but the derived ones differs.
C8_NoStaleStatus ==
    [][ "Recomputed EOSL statuses." \in out'.messages =>
            LET fresh == IF out'.click = "reload" THEN load_inventory_from_file(SampleFile).val
                         ELSE IF uploaded'.kind = "csv" THEN load_inventory_from_file(uploaded').val
                         ELSE Fresh(inventory_df)
            IN  inventory_df' = flag_missing_firmware(
                                    compute_eosl_status(fresh, near_days', pandasNaTCmp).val)
      ]_vars

\* The sample, classified with 90 days at start (the date 8 days ahead is
\* NEARING), is classified again with 7 days: the record is SUPPORTED.
C8_Witness ==
    /\ uploaded.kind = "none"
    /\ out.click = "apply"
    /\ "Recomputed EOSL statuses." \in out.messages
    /\ near_days = 7
    /\ \E i \in 1..Len(inventory_df.rows) :
          /\ inventory_df.rows[i]._end_of_service_date_parsed = Date(Today + 8)
          /\ inventory_df.rows[i]._EOSL_STATUS = "SUPPORTED"

\* The entries of the change log: its lines but the header.
LogEntries(log) == IF log.lines = <<>> THEN <<>> ELSE Tail(log.lines)

\* C10: the run started by "Confirm bulk mark intimated for filtered rows"
\* appends one INTIMATED entry per row of the filtered view, in view order,
\* and reports their number.
C10_BulkConfirmAppends ==
    [][ out'.click = "confirm" =>
            LET before == Len(LogEntries(changeLog))
                after == LogEntries(changeLog')
            IN  /\ out'.count = Len(out'.filtered)
                /\ Len(after) = before + Len(out'.filtered)
                /\ \A i \in 1..Len(out'.filtered) :
                      /\ after[before + i][2] = out'.filtered[i].hostname
                      /\ after[before + i][3] = "INTIMATED"
      ]_vars

-----------------------------------------------------------------------------
(* Properties of the change log (SpecAudit) *)

\* C6: get_last_action_for_host(h) is None when the log is absent or has no
\* entry for h; otherwise it is the entry of the latest timestamp among the
\* entries for h, equal field for field to that entry as it was appended.
C6_LastActionRoundTrip ==
    \A h \in HostChoices :
        LET lines == changeLog.lines
            written == {i \in 2..Len(lines) : lines[i][2] = h}
            got == get_last_action_for_host(changeLog, h)
        IN  IF written = {} THEN ~got.found
            ELSE LET last == CHOOSE i \in written : \A j \in written :
                                 ts_rank(lines[j][1]) <= ts_rank(lines[i][1])
                 IN  /\ got.found
                     /\ <<got.timestamp, got.hostname, got.action, got.actor, got.details>>
                            = lines[last]

WellFormedLog(log) ==
    IF ~log.exists THEN log.lines = <<>>
    ELSE /\ Len(log.lines) >= 2
         /\ log.lines[1] = ENTRY_KEYS
         /\ \A i \in 2..Len(log.lines) : log.lines[i] # ENTRY_KEYS /\ log.lines[i][3] = "INTIMATED"

IsPrefix(a, b) == Len(a) <= Len(b) /\ SubSeq(b, 1, Len(a)) = a

\* C7: the change log is one header row, written when the file is created,
\* followed by the appended entries in the order of their appends; a step
\* appends at the end and leaves every earlier row as it was.
C7_LogIsAppendOnly ==
    [][ /\ WellFormedLog(changeLog')
        /\ changeLog.exists => changeLog'.exists
        /\ IsPrefix(changeLog.lines, changeLog'.lines)
        /\ changeLog' # changeLog =>
              /\ Len(changeLog'.lines) = Len(changeLog.lines) + (IF changeLog.exists THEN 1 ELSE 2)
              /\ changeLog'.lines[Len(changeLog'.lines)][1] = isoformat(clock)
              /\ changeLog'.lines[Len(changeLog'.lines)][2] = selected_host
              /\ changeLog'.lines[Len(changeLog'.lines)][4] = actor_name
      ]_vars

\* A header and two entries.
C7_Witness == changeLog.exists /\ Len(changeLog.lines) = 3

====
